---- MODULE Spec2Model ----
(***************************************************************************)
(* Model of the dip/rip trading bot (crypto_trading_bot.py).               *)
(*                                                                         *)
(* Units.  Prices and balances are whole USDT.  Percent settings are kept  *)
(* as the percent number (BASE_DIP == 1 stands for 1.0/100), so that       *)
(*   price <= last * (1 - BASE_DIP)   is   price*100 <= last*(100-BASE_DIP)*)
(* Amounts are in 1e-8 units of the base asset (round(x, 8)), and          *)
(* usdt_delta is in 1e-8 USDT.  Times are seconds on the wall clock; a     *)
(* date is the number of whole days, Day(t).                               *)
(***************************************************************************)
EXTENDS Integers, Sequences, FiniteSets, TLC

\* ------------------------------------------------------------------ settings
BASE_DIP == 1
BASE_RIP == 2
MIN_HOLD == 300
DAILY_DRAWDOWN_LIMIT == 5
INVESTMENT_AMOUNT_USD == 10
RETRIES == 3
DaySeconds == 86400
AmountScale == 100000000
None == -1

\* the symbol lists the settings are drawn from
OneSymbol == <<"BTC/USDT">>
TwoSymbols == <<"BTC/USDT", "ADA/USDT">>

\* ------------------------------------------------------------------ bounds
MaxShortTicks == 1
MaxDayTicks == 1
MaxJournal == 2
MaxSummaries == 2
MaxRetriesArg == 4
MaxTasks == 2

\* inputs the exchange and the clock can supply
Prices == {9900, 10000, 10098}
Balances == {949, 950, 1000}
InitPrices == {10000}
InitBalances == {1000}
FreeAmts == {101010}
Fees == {1000}

Outcome == {"ok", "transient", "fatal"}
\* per-attempt outcomes of one wrapped exchange call, attempt 1 first
Scripts == {<<"ok", "ok", "ok">>,
            <<"transient", "transient", "ok">>,
            <<"transient", "transient", "transient">>,
            <<"transient", "fatal", "ok">>}
AllScripts == [1..MaxRetriesArg -> Outcome]
\* an order call can also be "lost": the exchange executes the order and the
\* attempt then raises ccxt.NetworkError / ccxt.RequestTimeout
OrderScripts == Scripts \cup {<<"lost", "ok", "ok">>, <<"lost", "lost", "lost">>}

\* ------------------------------------------------------------------ helpers
Day(t) == t \div DaySeconds

\* timedelta.seconds: the seconds component of a timedelta, days dropped
TdSeconds(later, earlier) == (later - earlier) % DaySeconds

\* INVESTMENT_AMOUNT_USD / price is a float division.  For the whole prices
\* at which 10 / price lies exactly half way between two multiples of 1e-8
\* (price = 1024 * 5^j), the float quotient is exact for 1024 and 5120, above
\* the exact quotient for the prices in FloatAbove and below it for those in
\* FloatBelow.
FloatAbove == {25600, 128000, 640000, 3200000, 16000000, 2000000000}
FloatBelow == {80000000, 400000000}

\* round(n / d, 8) in units of 1e-8, n being the dividend in the same units:
\* the float quotient rounded to the nearest multiple, an exact half way
\* going to the even one (Python round); at a half way of the exact quotient
\* the float decides when it is not exact
RoundDiv(n, d) ==
    LET q == n \div d
        r == n % d
    IN  IF r > d - r THEN q + 1
        ELSE IF r < d - r THEN q
        ELSE IF d \in FloatAbove THEN q + 1
        ELSE IF d \in FloatBelow THEN q
        ELSE IF q % 2 = 0 THEN q ELSE q + 1

\* amt = round(INVESTMENT_AMOUNT_USD / price, 8)
BuyAmount(price) == RoundDiv(INVESTMENT_AMOUNT_USD * AmountScale, price)

\* DipHit with the dip threshold left out
DipHit_NoThreshold(st, price) ==
    /\ ~st.in
    /\ price * 100 <= st.last_price * 100

\* not st['in'] and price <= st['last_price'] * (1 - BASE_DIP)
DipHit(st, price) ==
    /\ ~st.in
    /\ price * 100 <= st.last_price * (100 - BASE_DIP)

\* RipHit with the minimum hold time left out
RipHit_NoHold(st, price, t) ==
    /\ st.in
    /\ price * 100 >= st.buy_price * (100 + BASE_RIP)

\* st['in'] and (now - buy_time).seconds >= MIN_HOLD and price >= buy_price*(1+BASE_RIP)
RipHit(st, price, t) ==
    /\ st.in
    /\ TdSeconds(t, st.buy_time) >= MIN_HOLD
    /\ price * 100 >= st.buy_price * (100 + BASE_RIP)

\* Breach with the boundary included
Breach_Inclusive(b, base) == b * 100 <= base * (100 - DAILY_DRAWDOWN_LIMIT)

\* bal < starting_balance * (1 - DAILY_DRAWDOWN_LIMIT)
Breach(b, base) == b * 100 < base * (100 - DAILY_DRAWDOWN_LIMIT)

\* RetryFrom retrying after any failure, not only a transient one
RECURSIVE RetryFrom_AnyFailure(_, _, _)
RetryFrom_AnyFailure(script, i, retries) ==
    IF i < retries - 1
    THEN IF script[i + 1] # "ok"
         THEN RetryFrom_AnyFailure(script, i + 1, retries)
         ELSE [attempts |-> i + 1, result |-> script[i + 1]]
    ELSE [attempts |-> i + 1, result |-> script[i + 1]]

\* retry_call: loop index i (0-based) of "for i in range(retries - 1)",
\* then the final call outside the loop.
\* except (ccxt.NetworkError, ccxt.RequestTimeout, requests.RequestException)
Transient(o) == o \in {"transient", "lost"}

RECURSIVE RetryFrom(_, _, _)
RetryFrom(script, i, retries) ==
    IF i < retries - 1
    THEN IF Transient(script[i + 1])
         THEN RetryFrom(script, i + 1, retries)
         ELSE [attempts |-> i + 1, result |-> script[i + 1]]
    ELSE [attempts |-> i + 1, result |-> script[i + 1]]

RetryCall(script, retries) == RetryFrom(script, 0, retries)

CallOk(script) == RetryCall(script, RETRIES).result = "ok"

\* the orders the exchange executed during one retry_call of an order call
Executed(script) ==
    Cardinality({k \in 1..RetryCall(script, RETRIES).attempts :
                    script[k] \in {"ok", "lost"}})

\* daily_summary's frame filter and aggregates over trades.csv.  The sum of
\* usdt_delta is kept in two limbs (whole USDT, 1e-8 USDT) so that it is exact.
RECURSIVE SumUnits(_)
SumUnits(rows) ==
    IF rows = <<>> THEN 0
    ELSE (Head(rows).usdt_delta \div AmountScale) + SumUnits(Tail(rows))

RECURSIVE SumFrac(_)
SumFrac(rows) ==
    IF rows = <<>> THEN 0
    ELSE (Head(rows).usdt_delta % AmountScale) + SumFrac(Tail(rows))

SumDelta(rows) ==
    [units |-> SumUnits(rows) + (SumFrac(rows) \div AmountScale),
     frac  |-> SumFrac(rows) % AmountScale]

InWindow(row, start, end) == row.timestamp >= start /\ row.timestamp < end

DayRows(rows, d) ==
    LET start == d * DaySeconds
        end   == start + DaySeconds
    IN  SelectSeq(rows, LAMBDA r : InWindow(r, start, end))

Summary(rows, d) ==
    [date |-> d, trades |-> Len(DayRows(rows, d)), pnl |-> SumDelta(DayRows(rows, d))]

\* ------------------------------------------------------------------ state
VARIABLES
    SYMBOLS,            \* the configured symbol list, in order
    running,            \* running_event
    positions,          \* positions[sym] = [in, last_price, buy_time, buy_price]
    last_summary_date,  \* date of the last daily roll
    starting_balance,   \* baseline balance
    journal,            \* rows of trades.csv after the header
    now,                \* wall clock, seconds
    ticks,              \* clock steps counted against the bounds: [short, day]
    pc,                 \* position of the trading_loop thread
    idx,                \* index into positions.items() during the for loop
    today,              \* local today of daily_summary, while it runs
    bal,                \* local bal, between its fetch and the drawdown check
    price,              \* local price of the current iteration
    amt,                \* local amt, between the free-balance fetch and the sell
    cyc,                \* what the current iteration has done so far
    summaries,          \* daily summary notifications sent
    rc,                 \* the most recent stand-alone retry_call
    log_file,           \* trades.csv at start-up: what was found, headers written
    bot_state,          \* trading_logic: the bot_state dict
    tasks,              \* trading_logic: the trading_loop tasks created so far
    stop_call,          \* trading_logic: the stop_trading coroutine
    start_ignored       \* trading_logic: a start_trading call returned "already running"

\* the state of trading_logic.py
logic == <<bot_state, tasks, stop_call, start_ignored>>

vars == <<SYMBOLS, running, positions, last_summary_date, starting_balance, journal,
          now, ticks, pc, idx, today, bal, price, amt, cyc, summaries, rc, log_file, logic>>

loopVars == <<SYMBOLS, running, positions, last_summary_date, starting_balance, journal,
              now, ticks, pc, idx, today, bal, price, amt, cyc, summaries, log_file, logic>>

\* the state of the trading_loop thread of crypto_trading_bot.py
loopVarsCore == <<running, positions, last_summary_date, starting_balance, journal,
                  now, ticks, pc, idx, today, bal, price, amt, cyc, summaries>>

\* the keys of positions
Symbols == {SYMBOLS[i] : i \in 1..Len(SYMBOLS)}

\* positions[sym] = { 'in': False, 'last_price': price, 'buy_time': None, 'buy_price': None }
FlatAt(p) == [in |-> FALSE, last_price |-> p, buy_time |-> None, buy_price |-> None]

\* cyc at the start of an iteration: symbols whose evaluation has begun, orders
\* the exchange accepted, symbols whose evaluation raised, error notifications
\* sent (a symbol, or "loop" for one sent by the outer handler), whether the
\* drawdown check tripped, whether the outer handler caught an exception, and
\* <<symbol, side, n>> for each order call during which the exchange executed
\* n >= 1 orders
NoCycle == [evald |-> {}, orders |-> {}, failed |-> {}, notified |-> {},
            breach |-> FALSE, fatal |-> FALSE, exchange |-> {}]

\* c with the n orders the exchange executed for sym noted
Exch(c, sym, side, n) ==
    IF n > 0 THEN [c EXCEPT !.exchange = @ \cup {<<sym, side, n>>}] ELSE c

\* except Exception as e: logging.error(f"Trading loop fatal: {e}"), the outer
\* handler; the iteration then ends at time.sleep(POLL_INTERVAL)
Fatal(c) == [c EXCEPT !.fatal = TRUE]

NoCall == [script |-> <<>>, retries |-> 0, attempts |-> 0, result |-> "none"]

\* ticks at start-up: no clock step counted, or all but one of each kind
NoTicks == [short |-> 0, day |-> 0]
OneStepLeft == [short |-> MaxShortTicks - 1, day |-> MaxDayTicks - 1]

\* no trades.csv on disk
NoLogFile == [exists |-> FALSE, rows |-> <<>>]

\* what start-up can find on disk: no trades.csv, one holding the header only,
\* or one holding the header and a row of an earlier run
OldRow ==
    [timestamp |-> 0, symbol |-> "BTC/USDT", side |-> "buy",
     price |-> 9900, amount |-> BuyAmount(9900), fee |-> 1000,
     usdt_delta |-> 0 - (9900 * BuyAmount(9900) + 1000)]

LogFiles ==
    {NoLogFile,
     [exists |-> TRUE, rows |-> <<>>],
     [exists |-> TRUE, rows |-> <<OldRow>>]}

\* a trades.csv of an earlier run with room for two more rows, whatever the
\* bound on the journal
RoomForTwo == [exists |-> TRUE, rows |-> [i \in 1..(MaxJournal - 2) |-> OldRow]]

\* EnsureLog opening trades.csv for writing whether or not it exists
EnsureLog_Overwrite(found) == [headers |-> 1, rows |-> <<>>]

\* if not os.path.exists(LOG_FILE): open(LOG_FILE, 'w') and write the header.
\* headers: header lines written; rows: the rows after the header afterwards
EnsureLog(found) ==
    IF ~found.exists
    THEN [headers |-> 1, rows |-> <<>>]
    ELSE [headers |-> 0, rows |-> found.rows]

\* bot_state before the first start_trading: no task, no price seen
NoTask == 0
FreshBotState(syms) ==
    [is_running |-> FALSE, last_status |-> "Unknown", trading_task |-> NoTask,
     last_prices |-> [s \in {syms[i] : i \in 1..Len(syms)} |-> None]]

\* stop_trading not being awaited by anyone
NoStop == [at |-> "idle", task |-> NoTask, result |-> "none"]

\* module globals, then init_positions(), for the symbol list syms, a
\* trades.csv as in logs, and counted clock steps
InitFrom(syms, logs, counted) ==
    /\ \E found \in logs :
         /\ log_file = [existed |-> found.exists, prior |-> found.rows,
                        headers |-> EnsureLog(found).headers]
         /\ journal = EnsureLog(found).rows
    /\ bot_state = FreshBotState(syms)
    /\ tasks = <<>>
    /\ stop_call = NoStop
    /\ start_ignored = FALSE
    /\ SYMBOLS = syms
    /\ running = FALSE
    /\ positions \in [{syms[i] : i \in 1..Len(syms)} -> {FlatAt(p) : p \in InitPrices}]
    /\ last_summary_date = 0
    /\ starting_balance \in InitBalances
    /\ now = 0
    /\ ticks = counted
    /\ pc = "check"
    /\ idx = 0
    /\ today = None
    /\ bal = None
    /\ price = None
    /\ amt = None
    /\ cyc = NoCycle
    /\ summaries = <<>>
    /\ rc = NoCall

\* the same, started without a trades.csv on disk
InitWith(syms) == InitFrom(syms, {NoLogFile}, NoTicks)

Init == InitWith(OneSymbol)

\* LoopCheck resuming by itself when it sees a new day while paused
LoopCheck_AutoResume ==
    /\ pc = "check"
    /\ IF running
       THEN /\ pc' = "summary"
            /\ cyc' = NoCycle
            /\ price' = None
            /\ UNCHANGED running
       ELSE IF Day(now) > last_summary_date
       THEN /\ running' = TRUE
            /\ pc' = "summary"
            /\ cyc' = NoCycle
            /\ price' = None
       ELSE /\ pc' = "idle_sleep"
            /\ UNCHANGED <<running, cyc, price>>
    /\ UNCHANGED <<positions, last_summary_date, starting_balance,
                   journal, now, ticks, idx, bal, amt, summaries, rc, SYMBOLS, log_file, logic, today>>

\* ------------------------------------------------------------------ trading_loop
\* while True: if not running_event.is_set(): time.sleep(1); continue
LoopCheck ==
    /\ pc = "check"
    /\ IF running
       THEN /\ pc' = "summary"
            /\ cyc' = NoCycle
            /\ price' = None
       ELSE /\ pc' = "idle_sleep"
            /\ UNCHANGED <<cyc, price>>
    /\ UNCHANGED <<running, positions, last_summary_date, starting_balance,
                   journal, now, ticks, idx, bal, amt, summaries, rc, SYMBOLS, log_file, logic, today>>

\* the end of time.sleep(1) of an idle poll
IdleWake ==
    /\ pc = "idle_sleep"
    /\ pc' = "check"
    /\ UNCHANGED <<running, positions, last_summary_date, starting_balance,
                   journal, now, ticks, idx, bal, price, amt, cyc, summaries, rc, SYMBOLS, log_file, logic, today>>

\* DailySummary with no handler around it: an exception ends the thread
DailySummary_Uncaught ==
    /\ pc = "summary"
    /\ IF Day(now) > last_summary_date
       THEN \E csvOk \in BOOLEAN :
              IF ~csvOk
              THEN /\ pc' = "dead"
                   /\ UNCHANGED <<summaries, today, cyc>>
              ELSE /\ Len(summaries) < MaxSummaries
                   /\ summaries' = Append(summaries, Summary(journal, last_summary_date))
                   /\ today' = Day(now)
                   /\ pc' = "summary_balance"
                   /\ UNCHANGED cyc
       ELSE /\ pc' = "balance"
            /\ UNCHANGED <<summaries, today, cyc>>
    /\ UNCHANGED <<running, positions, last_summary_date, starting_balance,
                   journal, now, ticks, idx, bal, price, amt, rc, SYMBOLS,
                   log_file, logic>>

\* daily_summary(), called first in the try block of an active iteration, up
\* to the return of send_telegram: today = date.today(), the comparison, the
\* journal read and the summary notification.  An exception raised in it is
\* caught by the outer handler (logged), and the iteration ends at
\* time.sleep(POLL_INTERVAL).
DailySummary ==
    /\ pc = "summary"
    /\ IF Day(now) > last_summary_date
       THEN \E csvOk \in BOOLEAN :
              IF ~csvOk
              THEN \* pd.read_csv raises
                   /\ pc' = "poll_sleep"
                   /\ cyc' = Fatal(cyc)
                   /\ UNCHANGED <<summaries, today>>
              ELSE /\ Len(summaries) < MaxSummaries
                   /\ summaries' = Append(summaries, Summary(journal, last_summary_date))
                   /\ today' = Day(now)
                   /\ pc' = "summary_balance"
                   /\ UNCHANGED cyc
       ELSE /\ pc' = "balance"
            /\ UNCHANGED <<summaries, today, cyc>>
    /\ UNCHANGED <<running, positions, last_summary_date, starting_balance,
                   journal, now, ticks, idx, bal, price, amt, rc, SYMBOLS,
                   log_file, logic>>

\* the rest of daily_summary(): starting_balance = fetch_balance_usdt();
\* last_summary_date = today.  A fetch that raises leaves both as they were
\* and is caught by the outer handler.
SummaryBalance ==
    /\ pc = "summary_balance"
    /\ \E script \in Scripts, b \in Balances :
         IF CallOk(script)
         THEN /\ starting_balance' = b
              /\ last_summary_date' = today
              /\ pc' = "balance"
              /\ UNCHANGED cyc
         ELSE /\ pc' = "poll_sleep"
              /\ cyc' = Fatal(cyc)
              /\ UNCHANGED <<starting_balance, last_summary_date>>
    /\ today' = None
    /\ UNCHANGED <<running, positions, journal, now, ticks, idx, bal, price,
                   amt, summaries, rc, SYMBOLS, log_file, logic>>

\* FetchBalance pausing the bot when the fetch fails
FetchBalance_PauseOnFail ==
    /\ pc = "balance"
    /\ \E script \in Scripts, b \in Balances :
         IF CallOk(script)
         THEN bal' = b /\ pc' = "breaker" /\ running' = running
         ELSE bal' = None /\ pc' = "poll_sleep" /\ running' = FALSE
    /\ UNCHANGED <<positions, last_summary_date, starting_balance,
                   journal, now, ticks, idx, price, amt, cyc, summaries, rc, SYMBOLS, log_file, logic, today>>

\* bal = fetch_balance_usdt() in its own try
FetchBalance ==
    /\ pc = "balance"
    /\ \E script \in Scripts, b \in Balances :
         IF CallOk(script)
         THEN bal' = b /\ pc' = "breaker"
         ELSE \* logged, time.sleep(POLL_INTERVAL), continue
              bal' = None /\ pc' = "poll_sleep"
    /\ UNCHANGED <<running, positions, last_summary_date, starting_balance,
                   journal, now, ticks, idx, price, amt, cyc, summaries, rc, SYMBOLS, log_file, logic, today>>

\* if bal < starting_balance * (1 - DAILY_DRAWDOWN_LIMIT): send_telegram(...)
\* (bal is not read after this comparison).  The notice is a blocking POST:
\* the thread waits in it with the run flag as it was, and the operator's
\* commands are served meanwhile.
BreakerCheck ==
    /\ pc = "breaker"
    /\ IF Breach(bal, starting_balance)
       THEN /\ cyc' = [cyc EXCEPT !.breach = TRUE]
            /\ pc' = "breaker_notice"
            /\ UNCHANGED idx
       ELSE /\ pc' = "ticker"
            /\ idx' = 1
            /\ UNCHANGED cyc
    /\ bal' = None
    /\ UNCHANGED <<running, positions, last_summary_date, starting_balance, journal,
                   now, ticks, price, amt, summaries, rc, SYMBOLS, log_file, logic, today>>

\* send_telegram has returned: running_event.clear(); continue
BreakerClear ==
    /\ pc = "breaker_notice"
    /\ running' = FALSE
    /\ pc' = "check"
    /\ UNCHANGED <<positions, last_summary_date, starting_balance, journal,
                   now, ticks, idx, bal, price, amt, cyc, summaries, rc, SYMBOLS,
                   log_file, logic, today>>

\* one row of trades.csv: [timestamp, symbol, side, price, amount, fee, usdt_delta]
BuyRow(t, sym, p, a, fee) ==
    [timestamp |-> t, symbol |-> sym, side |-> "buy", price |-> p,
     amount |-> a, fee |-> fee, usdt_delta |-> 0 - (p * a + fee)]

SellRow(t, sym, p, a, fee) ==
    [timestamp |-> t, symbol |-> sym, side |-> "sell", price |-> p,
     amount |-> a, fee |-> fee, usdt_delta |-> p * a - fee]

\* st after the three assignments that follow a placed buy order
Bought(st, p, t) == [st EXCEPT !.in = TRUE, !.buy_time = t, !.buy_price = p]

\* st after the two assignments that follow a placed sell order
Sold(st, p) == [st EXCEPT !.in = FALSE, !.last_price = p]

\* Track moving the reference price while the position is held as well
Track_Always(st, p) == [st EXCEPT !.last_price = p]

\* if not st['in']: st['last_price'] = price
Track(st, p) == IF ~st.in THEN [st EXCEPT !.last_price = p] ELSE st

\* the for loop moves to the next symbol or, after the last one, the
\* iteration ends at time.sleep(POLL_INTERVAL)
NextSymbol ==
    IF idx < Len(SYMBOLS)
    THEN idx' = idx + 1 /\ pc' = "ticker"
    ELSE idx' = 0 /\ pc' = "poll_sleep"

\* Except ending the whole for loop instead of one pass through its body
Except_Abort(sym) ==
    /\ cyc' = [cyc EXCEPT !.evald = @ \cup {sym}, !.failed = @ \cup {sym},
                          !.notified = @ \cup {sym}]
    /\ idx' = 0
    /\ pc' = "poll_sleep"

\* except Exception as e: logging.error(...); send_telegram(...)
Except(sym) ==
    /\ cyc' = [cyc EXCEPT !.evald = @ \cup {sym}, !.failed = @ \cup {sym},
                          !.notified = @ \cup {sym}]
    /\ NextSymbol

\* the same handler after an order call during which the exchange executed
\* n orders
ExceptOrder(sym, side, n) ==
    /\ cyc' = Exch([cyc EXCEPT !.evald = @ \cup {sym}, !.failed = @ \cup {sym},
                               !.notified = @ \cup {sym}], sym, side, n)
    /\ NextSymbol

\* price = safe_fetch_ticker(sym), then the choice of the branch
FetchTicker ==
    /\ pc = "ticker"
    /\ LET sym == SYMBOLS[idx]
           st  == positions[sym]
       IN
       \E script \in Scripts, p \in Prices :
         IF ~CallOk(script)
         THEN /\ Except(sym)
              /\ UNCHANGED <<price, positions>>
         ELSE /\ price' = p
              /\ IF DipHit(st, p)
                 THEN /\ pc' = "buy_order"
                      /\ cyc' = [cyc EXCEPT !.evald = @ \cup {sym}]
                      /\ UNCHANGED <<idx, positions>>
                 ELSE IF RipHit(st, p, now)
                 THEN /\ pc' = "sell_free"
                      /\ cyc' = [cyc EXCEPT !.evald = @ \cup {sym}]
                      /\ UNCHANGED <<idx, positions>>
                 ELSE /\ positions' = [positions EXCEPT ![sym] = Track(st, p)]
                      /\ cyc' = [cyc EXCEPT !.evald = @ \cup {sym}]
                      /\ NextSymbol
    /\ UNCHANGED <<running, last_summary_date, starting_balance, journal, now,
                   ticks, bal, amt, summaries, rc, SYMBOLS, log_file, logic, today>>

\* the statements after a placed order: fee lookup, journal row, confirmation,
\* and the final "if not st['in']" of the for body
AfterOrder(sym, st1, row, n) ==
    \E feeOk \in BOOLEAN, writeOk \in BOOLEAN :
      IF feeOk /\ writeOk
      THEN /\ Len(journal) < MaxJournal
           /\ journal' = Append(journal, row)
           /\ positions' = [positions EXCEPT ![sym] = Track(st1, price)]
           /\ cyc' = Exch([cyc EXCEPT !.orders = @ \cup {<<sym, row.side>>}],
                          sym, row.side, n)
           /\ NextSymbol
      ELSE \* order['fee'] is None, or the row cannot be written
           /\ journal' = journal
           /\ positions' = [positions EXCEPT ![sym] = st1]
           /\ cyc' = Exch([cyc EXCEPT !.orders = @ \cup {<<sym, row.side>>},
                                      !.failed = @ \cup {sym},
                                      !.notified = @ \cup {sym}],
                          sym, row.side, n)
           /\ NextSymbol

\* The clock steps that can pass between two reads of datetime.now() within
\* one step of the loop thread, and the clock and its step count after them
Elapsed ==
    {[short |-> a, day |-> b] : a \in 0..(MaxShortTicks - ticks.short),
                                b \in 0..(MaxDayTicks - ticks.day)}
Later(e) == now + e.short * MIN_HOLD + e.day * DaySeconds
Ticked(e) == [short |-> ticks.short + e.short, day |-> ticks.day + e.day]

\* PlaceBuy marking the position as bought before the order call returns
PlaceBuy_CommitFirst ==
    /\ pc = "buy_order"
    /\ LET sym == SYMBOLS[idx]
           st  == positions[sym]
       IN
       \E script \in OrderScripts, fee \in Fees :
         IF ~CallOk(script)
         THEN /\ ExceptOrder(sym, "buy", Executed(script))
              /\ positions' = [positions EXCEPT ![sym] = Bought(st, price, now)]
              /\ UNCHANGED <<journal, now, ticks>>
         ELSE \E e \in Elapsed :
                /\ AfterOrder(sym, Bought(st, price, now),
                              BuyRow(Later(e), sym, price, BuyAmount(price), fee),
                              Executed(script))
                /\ now' = Later(e)
                /\ ticks' = Ticked(e)
    /\ UNCHANGED <<running, last_summary_date, starting_balance,
                   bal, price, amt, summaries, rc, SYMBOLS, log_file, logic, today>>

\* amt = round(INVESTMENT_AMOUNT_USD / price, 8); order = safe_create_order(buy).
\* st['buy_time'] is datetime.now() read when the order has returned; the
\* journal row is stamped by a second read, after the fee lookup, by when the
\* clock may have moved on.
PlaceBuy ==
    /\ pc = "buy_order"
    /\ LET sym == SYMBOLS[idx]
           st  == positions[sym]
       IN
       \E script \in OrderScripts, fee \in Fees :
         IF ~CallOk(script)
         THEN /\ ExceptOrder(sym, "buy", Executed(script))
              /\ UNCHANGED <<positions, journal, now, ticks>>
         ELSE \E e \in Elapsed :
                /\ AfterOrder(sym, Bought(st, price, now),
                              BuyRow(Later(e), sym, price, BuyAmount(price), fee),
                              Executed(script))
                /\ now' = Later(e)
                /\ ticks' = Ticked(e)
    /\ UNCHANGED <<running, last_summary_date, starting_balance,
                   bal, price, amt, summaries, rc, SYMBOLS, log_file, logic, today>>

\* amt = retry_call(exchange.fetch_balance)[base]['free']
FetchFree ==
    /\ pc = "sell_free"
    /\ LET sym == SYMBOLS[idx] IN
       \E script \in Scripts, a \in FreeAmts :
         IF ~CallOk(script)
         THEN /\ Except(sym)
              /\ UNCHANGED amt
         ELSE /\ amt' = a
              /\ pc' = "sell_order"
              /\ UNCHANGED <<idx, cyc>>
    /\ UNCHANGED <<running, positions, last_summary_date, starting_balance,
                   journal, now, ticks, bal, price, summaries, rc, SYMBOLS, log_file, logic, today>>

\* order = safe_create_order(sell)
PlaceSell ==
    /\ pc = "sell_order"
    /\ LET sym == SYMBOLS[idx]
           st  == positions[sym]
       IN
       \E script \in OrderScripts, fee \in Fees :
         IF ~CallOk(script)
         THEN /\ ExceptOrder(sym, "sell", Executed(script))
              /\ UNCHANGED <<positions, journal>>
         ELSE AfterOrder(sym, Sold(st, price), SellRow(now, sym, price, amt, fee),
                         Executed(script))
    /\ amt' = None
    /\ UNCHANGED <<running, last_summary_date, starting_balance, now, ticks,
                   bal, price, summaries, rc, SYMBOLS, log_file, logic, today>>

\* the end of time.sleep(POLL_INTERVAL), which ends an iteration
PollSleep ==
    /\ pc = "poll_sleep"
    /\ pc' = "check"
    /\ cyc' = NoCycle
    /\ price' = None
    /\ UNCHANGED <<running, positions, last_summary_date, starting_balance,
                   journal, now, ticks, idx, bal, amt, summaries, rc, SYMBOLS, log_file, logic, today>>

\* ------------------------------------------------------------------ operator
\* /startTrading
StartTrading ==
    /\ running' = TRUE
    /\ UNCHANGED <<positions, last_summary_date, starting_balance, journal,
                   now, ticks, pc, idx, bal, price, amt, cyc, summaries, rc, SYMBOLS, log_file, logic, today>>

\* /stopTrading
StopTrading ==
    /\ running' = FALSE
    /\ UNCHANGED <<positions, last_summary_date, starting_balance, journal,
                   now, ticks, pc, idx, bal, price, amt, cyc, summaries, rc, SYMBOLS, log_file, logic, today>>

\* ------------------------------------------------------------------ clock
\* The wall clock read by datetime.now() and date.today().  It is tracked in
\* steps of MIN_HOLD seconds and of one day; it moves wherever the loop
\* thread is, in a sleep or inside an exchange call.
TickShort ==
    /\ ticks.short < MaxShortTicks
    /\ now' = now + MIN_HOLD
    /\ ticks' = [ticks EXCEPT !.short = @ + 1]
    /\ UNCHANGED <<running, positions, last_summary_date, starting_balance,
                   journal, pc, idx, bal, price, amt, cyc, summaries, rc, SYMBOLS, log_file, logic, today>>

TickDay ==
    /\ ticks.day < MaxDayTicks
    /\ now' = now + DaySeconds
    /\ ticks' = [ticks EXCEPT !.day = @ + 1]
    /\ UNCHANGED <<running, positions, last_summary_date, starting_balance,
                   journal, pc, idx, bal, price, amt, cyc, summaries, rc, SYMBOLS, log_file, logic, today>>

Next ==
    \/ LoopCheck
    \/ IdleWake
    \/ DailySummary
    \/ SummaryBalance
    \/ FetchBalance
    \/ BreakerCheck
    \/ BreakerClear
    \/ FetchTicker
    \/ PlaceBuy
    \/ FetchFree
    \/ PlaceSell
    \/ PollSleep
    \/ StartTrading
    \/ StopTrading
    \/ TickShort
    \/ TickDay

Spec == Init /\ [][Next]_vars

\* the steps of the trading_loop thread
LoopStep ==
    \/ LoopCheck
    \/ IdleWake
    \/ DailySummary
    \/ SummaryBalance
    \/ FetchBalance
    \/ BreakerCheck
    \/ BreakerClear
    \/ FetchTicker
    \/ PlaceBuy
    \/ FetchFree
    \/ PlaceSell
    \/ PollSleep

\* the thread is scheduled whenever it can take a step: its sleeps end and
\* its exchange calls return or raise
SpecLive == Init /\ [][Next]_vars /\ WF_vars(LoopStep)

\* ------------------------------------------------------------------ journal file
\* the bot started over any of the trades.csv files start-up can find
InitLog == InitFrom(OneSymbol, LogFiles, NoTicks)

SpecLog == InitLog /\ [][Next]_vars

\* The same loop, handlers and clock over two symbols, started over an
\* existing trades.csv.  The clock has one step of MIN_HOLD and one step of a
\* day left and the journal room for two rows, whatever the bounds.
InitPair == InitFrom(TwoSymbols, {RoomForTwo}, OneStepLeft)

NextPair == Next

SpecPair == InitPair /\ [][NextPair]_vars

\* ------------------------------------------------------------------ retry_call alone
\* one call of retry_call(func, retries=r) whose attempts behave as script says
RetryCallStep ==
    /\ \E script \in AllScripts, r \in 1..MaxRetriesArg :
         LET res == RetryCall(script, r) IN
         rc' = [script |-> script, retries |-> r,
                attempts |-> res.attempts, result |-> res.result]
    /\ UNCHANGED loopVars

InitRetry == InitWith(OneSymbol)

NextRetry == RetryCallStep

SpecRetry == InitRetry /\ [][NextRetry]_vars

\* ------------------------------------------------------------------ trading_logic.py
\* The coroutines of trading_logic.py on one asyncio event loop: each runs
\* without interruption from one await to the next.
\* A task is [at, i]: "new" (created, not yet run), "fetch" (awaiting the
\* fetch_ticker of symbol i), "sleep" (awaiting asyncio.sleep), "done"
\* (returned), "failed" (ended by an exception).
Finished == {"done", "failed"}
TaskIds == 1..Len(tasks)
LiveTasks == {t \in TaskIds : tasks[t].at \notin Finished}

\* task.done()
TaskDone(t) == tasks[t].at \in Finished

\* start_trading creating a task whether or not one is live
LogicStartTrading_NoGuard ==
    /\ Len(tasks) < MaxTasks
    /\ tasks' = Append(tasks, [at |-> "new", i |-> 0])
    /\ bot_state' = [bot_state EXCEPT !.last_status = "Trading started",
                                      !.is_running = TRUE,
                                      !.trading_task = Len(tasks) + 1]
    /\ UNCHANGED <<stop_call, start_ignored>>
    /\ UNCHANGED <<loopVarsCore, rc, SYMBOLS, log_file>>

\* start_trading(bot_state): returns if the task exists and is not done,
\* otherwise sets the flag and creates the task
LogicStartTrading ==
    /\ IF bot_state.trading_task # NoTask /\ ~TaskDone(bot_state.trading_task)
       THEN /\ start_ignored' = TRUE
            /\ UNCHANGED <<bot_state, tasks>>
       ELSE /\ Len(tasks) < MaxTasks
            /\ tasks' = Append(tasks, [at |-> "new", i |-> 0])
            /\ bot_state' = [bot_state EXCEPT !.last_status = "Trading started",
                                              !.is_running = TRUE,
                                              !.trading_task = Len(tasks) + 1]
            /\ UNCHANGED start_ignored
    /\ UNCHANGED stop_call
    /\ UNCHANGED <<loopVarsCore, rc, SYMBOLS, log_file>>

\* the outcome of "await task" for a finished task: its return, or its
\* exception raised again in the awaiting coroutine
Awaited(t) == IF tasks[t].at = "failed" THEN "raised" ELSE "returned"

\* stop_trading(bot_state) up to its await
LogicStopTrading ==
    /\ stop_call.at = "idle"
    /\ bot_state' = [bot_state EXCEPT !.is_running = FALSE,
                                      !.last_status = "Trading stopped"]
    /\ LET task == bot_state.trading_task IN
       IF task = NoTask
       THEN stop_call' = [at |-> "idle", task |-> NoTask, result |-> "returned"]
       ELSE IF TaskDone(task)
            THEN stop_call' = [at |-> "idle", task |-> NoTask, result |-> Awaited(task)]
            ELSE stop_call' = [at |-> "await", task |-> task, result |-> "none"]
    /\ UNCHANGED <<tasks, start_ignored>>
    /\ UNCHANGED <<loopVarsCore, rc, SYMBOLS, log_file>>

\* stop_trading resumed when the task it awaits has finished
LogicStopResume ==
    /\ stop_call.at = "await"
    /\ TaskDone(stop_call.task)
    /\ stop_call' = [at |-> "idle", task |-> NoTask, result |-> Awaited(stop_call.task)]
    /\ UNCHANGED <<bot_state, tasks, start_ignored>>
    /\ UNCHANGED <<loopVarsCore, rc, SYMBOLS, log_file>>

\* while bot_state["is_running"]: evaluated by task t, which then awaits the
\* first fetch_ticker or returns
LoopTop(t) ==
    IF bot_state.is_running
    THEN [tasks EXCEPT ![t] = [at |-> "fetch", i |-> 1]]
    ELSE [tasks EXCEPT ![t] = [at |-> "done", i |-> 0]]

\* trading_loop(bot_state) from its creation to its first await
LogicLoopStart(t) ==
    /\ tasks[t].at = "new"
    /\ tasks' = LoopTop(t)
    /\ UNCHANGED <<bot_state, stop_call, start_ignored>>
    /\ UNCHANGED <<loopVarsCore, rc, SYMBOLS, log_file>>

\* the awaited fetch_ticker of symbol i returns a ticker or raises; nothing
\* in trading_loop catches the exception
LogicLoopTicker(t) ==
    /\ tasks[t].at = "fetch"
    /\ \E ok \in BOOLEAN, p \in Prices :
         IF ~ok
         THEN /\ tasks' = [tasks EXCEPT ![t] = [at |-> "failed", i |-> 0]]
              /\ UNCHANGED bot_state
         ELSE /\ bot_state' = [bot_state EXCEPT
                                   !.last_prices[SYMBOLS[tasks[t].i]] = p]
              /\ IF tasks[t].i < Len(SYMBOLS)
                 THEN tasks' = [tasks EXCEPT ![t].i = @ + 1]
                 ELSE tasks' = [tasks EXCEPT ![t] = [at |-> "sleep", i |-> 0]]
    /\ UNCHANGED <<stop_call, start_ignored>>
    /\ UNCHANGED <<loopVarsCore, rc, SYMBOLS, log_file>>

\* asyncio.sleep(interval) is over: back to the while condition
LogicLoopWake(t) ==
    /\ tasks[t].at = "sleep"
    /\ tasks' = LoopTop(t)
    /\ UNCHANGED <<bot_state, stop_call, start_ignored>>
    /\ UNCHANGED <<loopVarsCore, rc, SYMBOLS, log_file>>

\* the steps of the trading_loop tasks
LogicLoopStep ==
    \E t \in TaskIds :
        \/ LogicLoopStart(t)
        \/ LogicLoopTicker(t)
        \/ LogicLoopWake(t)

InitLogic == InitWith(TwoSymbols)

\* the operator commands of both controllers and the trading_logic tasks
NextLogic ==
    \/ LogicStartTrading
    \/ LogicStopTrading
    \/ LogicStopResume
    \/ \E t \in TaskIds : LogicLoopStart(t)
    \/ \E t \in TaskIds : LogicLoopTicker(t)
    \/ \E t \in TaskIds : LogicLoopWake(t)
    \/ StartTrading
    \/ StopTrading

SpecLogic == InitLogic /\ [][NextLogic]_vars

\* the event loop runs every coroutine that is ready
SpecLogicLive ==
    InitLogic /\ [][NextLogic]_vars /\ WF_vars(LogicLoopStep) /\ WF_vars(LogicStopResume)

TypeOK ==
    /\ running \in BOOLEAN
    /\ pc \in {"check", "idle_sleep", "summary", "summary_balance", "balance",
               "breaker", "breaker_notice", "ticker",
               "buy_order", "sell_free", "sell_order", "poll_sleep"}
    /\ Len(journal) <= MaxJournal

\* ------------------------------------------------------------------ properties
NumSymbols == Len(SYMBOLS)
Cur == SYMBOLS[idx]
EvalPcs == {"ticker", "buy_order", "sell_free", "sell_order"}
OrderPcs == {"buy_order", "sell_free", "sell_order"}
\* the step is one of the trading_loop thread
LoopMoved == pc' # pc \/ idx' # idx
NewOrder(s, side) == <<s, side>> \in cyc'.orders /\ <<s, side>> \notin cyc.orders

\* C1: for every symbol, in every reachable state, the position is HOLDING
\* exactly when buy_price and buy_time are both set.
C1_HoldingIffEntrySet ==
    \A s \in Symbols :
        positions[s].in <=>
            (positions[s].buy_price # None /\ positions[s].buy_time # None)

\* C2: the loop is about to place a BUY order, and a BUY order is accepted,
\* for a symbol only when the symbol is FLAT and the observed price is at most
\* last_price * (1 - BASE_DIP), last_price being the stored value; after an
\* accepted BUY the symbol is HOLDING with buy_price = price.
C2_BuyOnlyOnDip ==
    [][/\ pc' = "buy_order"
          => (/\ ~positions'[SYMBOLS[idx']].in
              /\ price' * 100 <=
                     positions'[SYMBOLS[idx']].last_price * (100 - BASE_DIP))
       /\ \A s \in Symbols :
             NewOrder(s, "buy") =>
                 /\ pc = "buy_order"
                 /\ s = Cur
                 /\ ~positions[s].in
                 /\ price * 100 <= positions[s].last_price * (100 - BASE_DIP)
                 /\ positions'[s].in
                 /\ positions'[s].buy_price = price]_vars

\* a BUY was accepted in this iteration at exactly the dip boundary
C2_Witness ==
    \E s \in Symbols :
        /\ <<s, "buy">> \in cyc.orders
        /\ positions[s].in
        /\ positions[s].buy_price * 100 = positions[s].last_price * (100 - BASE_DIP)

\* C3: the loop is in the SELL branch, and a SELL order is accepted, for a
\* symbol only when the symbol is HOLDING, at least MIN_HOLD seconds have
\* passed since buy_time, and the observed price is at least
\* buy_price * (1 + BASE_RIP).
C3_SellOnlyAfterHoldAndRip ==
    [][/\ pc' \in {"sell_free", "sell_order"}
          => (/\ positions'[SYMBOLS[idx']].in
              /\ now' - positions'[SYMBOLS[idx']].buy_time >= MIN_HOLD
              /\ price' * 100 >=
                     positions'[SYMBOLS[idx']].buy_price * (100 + BASE_RIP))
       /\ \A s \in Symbols :
             NewOrder(s, "sell") =>
                 /\ pc = "sell_order"
                 /\ s = Cur
                 /\ positions[s].in
                 /\ now - positions[s].buy_time >= MIN_HOLD
                 /\ price * 100 >= positions[s].buy_price * (100 + BASE_RIP)]_vars

\* a SELL was accepted in this iteration at exactly the hold and rip boundaries
C3_Witness ==
    \E s \in Symbols :
        /\ <<s, "sell">> \in cyc.orders
        /\ ~positions[s].in
        /\ now - positions[s].buy_time = MIN_HOLD
        /\ positions[s].last_price * 100 = positions[s].buy_price * (100 + BASE_RIP)

\* C4: whenever a HOLDING symbol is evaluated with now - buy_time >= MIN_HOLD
\* and price >= buy_price * (1 + BASE_RIP), the SELL branch is taken (the loop
\* goes on to fetch the free balance), whatever the holding time.
C4_SellFiresWhenDue ==
    [][(/\ pc = "ticker"
        /\ LoopMoved
        /\ Cur \notin cyc'.failed
        /\ positions[Cur].in
        /\ now - positions[Cur].buy_time >= MIN_HOLD
        /\ price' * 100 >= positions[Cur].buy_price * (100 + BASE_RIP))
       => pc' = "sell_free"]_vars

\* C5: a fetched balance strictly below starting_balance * (1 - limit) sends
\* the drawdown notice, and the loop's next step clears the run flag,
\* whatever the operator commanded during the notice, and ends the iteration
\* with no symbol evaluated and no order placed; a balance equal to that bound
\* leaves the flag alone; a symbol evaluation starts only from a drawdown
\* check that did not trip.
C5_BreachPauses ==
    [][/\ (pc = "breaker" /\ LoopMoved
            /\ bal * 100 < starting_balance * (100 - DAILY_DRAWDOWN_LIMIT))
          => (/\ pc' = "breaker_notice"
              /\ cyc'.breach
              /\ cyc'.evald = {}
              /\ cyc'.orders = {})
       /\ (pc = "breaker_notice" /\ LoopMoved)
          => (/\ ~running'
              /\ pc' = "check"
              /\ cyc'.breach
              /\ cyc'.evald = {}
              /\ cyc'.orders = {})
       /\ (pc' = "breaker_notice" /\ pc # "breaker_notice")
          => (/\ pc = "breaker"
              /\ bal * 100 < starting_balance * (100 - DAILY_DRAWDOWN_LIMIT))
       /\ (pc = "breaker" /\ LoopMoved
            /\ bal * 100 = starting_balance * (100 - DAILY_DRAWDOWN_LIMIT))
          => (running' = running /\ pc' = "ticker")
       /\ (pc' \in EvalPcs /\ pc \notin EvalPcs)
          => (/\ pc = "breaker"
              /\ bal # None
              /\ ~(bal * 100 < starting_balance * (100 - DAILY_DRAWDOWN_LIMIT)))
       /\ cyc'.breach => (cyc'.evald = {} /\ cyc'.orders = {})]_vars

\* the drawdown check has just tripped
C5_Witness ==
    /\ cyc.breach
    /\ ~running
    /\ pc = "check"
    /\ cyc.evald = {}
    /\ cyc.orders = {}

\* C6: the run flag goes from false to true only by the operator's start
\* command; no step of the loop sets it.
C6_OnlyOperatorResumes ==
    [][(~running /\ running') => StartTrading]_vars

\* paused by the drawdown check, still paused in an idle poll on a later day
C6_Witness ==
    /\ cyc.breach
    /\ ~running
    /\ pc = "idle_sleep"
    /\ Day(now) > last_summary_date

\* C7: the daily summary is sent exactly once per day rollover, whatever
\* exchange calls fail: no date is summarised twice.
C7_SummaryOncePerRollover ==
    \A i, j \in 1..Len(summaries) :
        summaries[i].date = summaries[j].date => i = j

\* C8: retry_call makes between 1 and retries attempts, each attempt but the
\* first follows a transient failure, the outcome of the last attempt made is
\* what the caller gets, and it stops on a transient failure only when the
\* attempts are used up.
C8_RetryContract ==
    rc.result # "none" =>
        /\ rc.attempts \in 1..rc.retries
        /\ \A k \in 1..(rc.attempts - 1) : rc.script[k] = "transient"
        /\ rc.result = rc.script[rc.attempts]
        /\ (rc.script[rc.attempts] = "transient" => rc.attempts = rc.retries)

\* three transient failures with the default of 3 attempts: the failure is raised
C8_Witness ==
    /\ rc.retries = RETRIES
    /\ rc.attempts = RETRIES
    /\ rc.result = "transient"

\* C9: a step of the buy or sell branch in which the exchange accepts no
\* order (the order or the free-balance fetch failed, or the free-balance
\* fetch only returned), and the choice of the branch itself, leave the
\* position records and the journal as they were.
C9_FailedOrderNoCommit ==
    [][/\ (pc \in OrderPcs /\ cyc'.orders = cyc.orders)
          => (positions' = positions /\ journal' = journal)
       /\ (pc = "ticker" /\ pc' \in OrderPcs)
          => (positions' = positions /\ journal' = journal)]_vars

\* the symbol's BUY order has just failed: its record still shows the dip
C9_Witness ==
    /\ pc = "poll_sleep"
    /\ SYMBOLS[1] \in cyc.failed
    /\ cyc.orders = {}
    /\ price # None
    /\ DipHit(positions[SYMBOLS[1]], price)

\* C10: in an iteration that passed the drawdown check every symbol is
\* evaluated in turn, whatever fails on the way; each failure is notified;
\* the evaluation of one symbol changes no other symbol's record.
C10_SymbolsIsolated ==
    [][/\ (pc \in EvalPcs /\ LoopMoved)
          => \/ (pc' \in OrderPcs /\ idx' = idx)
             \/ (idx < NumSymbols /\ pc' = "ticker" /\ idx' = idx + 1)
             \/ (idx = NumSymbols /\ pc' = "poll_sleep")
       /\ (pc = "breaker" /\ LoopMoved /\ pc' # "breaker_notice")
          => (pc' = "ticker" /\ idx' = 1)
       /\ (pc \in EvalPcs /\ pc' = "poll_sleep") => cyc'.evald = Symbols
       /\ cyc'.failed \subseteq cyc'.notified
       /\ pc \in EvalPcs
          => \A s \in Symbols \ {Cur} : positions'[s] = positions[s]
       /\ pc \notin EvalPcs => positions' = positions]_vars

\* an iteration has ended in which the first symbol failed and was notified
\* and the second was evaluated without a failure
C10_Witness ==
    /\ pc = "poll_sleep"
    /\ cyc.evald = Symbols
    /\ SYMBOLS[1] \in cyc.failed
    /\ SYMBOLS[1] \in cyc.notified
    /\ SYMBOLS[2] \notin cyc.failed

\* C11: the trading loop never stops: whatever is raised in an iteration,
\* the thread comes back to the top of its while loop again and again.
C11_LoopNeverDies == []<>(pc = "check")

\* the outer handler has caught an exception and the iteration is ending
C11_Witness ==
    /\ cyc.fatal
    /\ pc = "poll_sleep"

\* C12: every exception caught by the outer handler of the loop is reported
\* through the notifier before the loop goes on to the next iteration.
C12_FatalNotified ==
    (cyc.fatal /\ pc = "poll_sleep") => "loop" \in cyc.notified

\* the iteration is ending because its balance fetch failed
BalanceFetchFailed ==
    /\ pc = "poll_sleep"
    /\ ~cyc.fatal
    /\ cyc.evald = {}

\* C13: when the balance fetch of an active iteration fails, the failure
\* changes neither the run flag nor any position record nor the risk baseline
\* nor the journal, the iteration has evaluated no symbol and placed no order,
\* and the next step of the loop is the start of the next iteration.
C13_BalanceFailureSkipsCycle ==
    [][/\ (pc = "balance" /\ pc' = "poll_sleep")
          => /\ UNCHANGED <<running, positions, starting_balance,
                            last_summary_date, journal>>
             /\ cyc'.evald = {}
             /\ cyc'.orders = {}
       /\ (BalanceFetchFailed /\ LoopMoved)
          => /\ pc' = "check"
             /\ UNCHANGED <<running, positions, starting_balance, journal>>]_vars

\* the balance fetch failed while the bot was running, and it is still running
C13_Witness ==
    /\ BalanceFetchFailed
    /\ running
    /\ bal = None

\* a is a prefix of b
IsPrefix(a, b) == Len(a) <= Len(b) /\ SubSeq(b, 1, Len(a)) = a

\* C14: the journal is append-only.  Start-up writes the header exactly when
\* trades.csv does not exist and keeps the rows of a file that exists; every
\* step leaves the earlier rows as a prefix of the later rows.
C14_JournalAppendOnly ==
    /\ [](/\ log_file.headers = (IF log_file.existed THEN 0 ELSE 1)
          /\ IsPrefix(log_file.prior, journal))
    /\ [][IsPrefix(journal, journal') /\ log_file' = log_file]_vars

\* a row was appended to a trades.csv that held a row at start-up
C14_Witness ==
    /\ log_file.existed
    /\ log_file.prior # <<>>
    /\ Len(journal) > Len(log_file.prior)

\* C15: a start issued while the loop is already running is a no-op and
\* starts no second loop.  In crypto_trading_bot a step that leaves the run
\* flag set changes no position, baseline or summary date; in trading_logic
\* a task is created, and the flag raised, only when no task is live, so at
\* most one trading_loop task is live under any interleaving of start and stop.
C15_StartWhileRunningNoOp ==
    /\ [](Cardinality(LiveTasks) <= 1)
    /\ [][/\ Len(tasks') > Len(tasks) => LiveTasks = {}
          /\ (bot_state'.is_running /\ ~bot_state.is_running) => LiveTasks = {}
          /\ (running /\ running')
              => UNCHANGED <<positions, starting_balance, last_summary_date,
                             journal>>]_vars

\* start_trading was called while a task was live, and one task is live
C15_Witness ==
    /\ start_ignored
    /\ Cardinality(LiveTasks) = 1
    /\ Len(tasks) = 2
    /\ running

\* C19: in trading_logic a stop_trading that waits for the loop task is
\* followed by the task finishing and stop_trading returning; a task finishes
\* only by returning from its while loop after the run flag was cleared, and
\* stop_trading never ends with an exception.
C19_OnlyStopEndsLoop ==
    /\ (stop_call.at = "await")
           ~> (stop_call.at = "idle" /\ stop_call.result = "returned")
    /\ [](stop_call.result # "raised")
    /\ [][\A t \in TaskIds :
             (tasks'[t].at \in Finished /\ tasks[t].at \notin Finished)
                 => (tasks'[t].at = "done" /\ ~bot_state.is_running)]_vars

\* C16: no position transition is half-committed: in every step, the
\* position of a symbol changes between FLAT and HOLDING exactly when a trade
\* record for that symbol is appended to the journal, so that the transitions
\* of a symbol and its records are equal in number.
C16_TransitionIffRecord ==
    [][\A s \in Symbols :
          (positions'[s].in # positions[s].in)
              <=> (/\ Len(journal') = Len(journal) + 1
                   /\ journal'[Len(journal')].symbol = s)]_vars

\* C17: while the run flag is false the loop starts no order placement:
\* a ticker that returns while the flag is false is not followed by an order
\* call, and a record is journaled while the flag is false only by an order
\* placement that was already in flight.
C17_NoNewOrderWhilePaused ==
    [][/\ (~running /\ pc = "ticker") => pc' \notin OrderPcs
       /\ (~running /\ Len(journal') > Len(journal)) => pc \in OrderPcs]_vars

\* C18: when the evaluation of a symbol at observed price p ends without an
\* error, last_price of the symbol is p if the symbol is then FLAT and is what
\* it was before the evaluation step if the symbol is then HOLDING.
C18_ReferencePriceFrame ==
    [][(pc \in EvalPcs /\ idx' # idx /\ Cur \notin cyc'.failed)
          => /\ positions'[Cur].in
                  => positions'[Cur].last_price = positions[Cur].last_price
             /\ ~positions'[Cur].in
                  => positions'[Cur].last_price = price']_vars

\* a BUY at 9900 was committed without error and last_price is still 10000
C18_Witness ==
    /\ pc = "poll_sleep"
    /\ <<SYMBOLS[1], "buy">> \in cyc.orders
    /\ SYMBOLS[1] \notin cyc.failed
    /\ positions[SYMBOLS[1]].in
    /\ positions[SYMBOLS[1]].buy_price = 9900
    /\ positions[SYMBOLS[1]].last_price = 10000

\* C20: for each order-placement step of an iteration the exchange executes
\* at most one order, and the position of the symbol agrees with what the
\* exchange executed: HOLDING after an executed BUY, FLAT after an executed
\* SELL.  An order attempt may raise a transient error after the exchange
\* executed it, and retry_call then repeats the attempt.
C20_AtMostOneOrderPerStep ==
    \A e \in cyc.exchange :
        /\ e[3] <= 1
        /\ positions[e[1]].in <=> (e[2] = "buy")

====
